---- MODULE Spec2Model ----
(***************************************************************************)
(* PIC32MZ Project Builder (pic32_project_builder.py): the clock dialog's  *)
(* frequency calculation, and the UART, timer and clock file generators.   *)
(*                                                                         *)
(* Representation of the program's values                                  *)
(*   - a Tk StringVar holding a number is a record [ok, n]: ok says that   *)
(*     Python's int()/float() parses the text, n is the parsed value.      *)
(*     Text that does not parse is Garbage.                                *)
(*   - input_freq is held in hundredths of a MHz (8.25 MHz is 825);        *)
(*     values formatted with "{:.1f}" are held in tenths (80.0 is 800).    *)
(*   - Python floats are modelled by exact rationals num/den; the sets the *)
(*     inputs are drawn from were compared with CPython on every element.  *)
(***************************************************************************)
EXTENDS Integers, Sequences, FiniteSets, TLC

-----------------------------------------------------------------------------
(* Text values *)

Num(n) == [ok |-> TRUE, n |-> n]

Garbage == [ok |-> FALSE, n |-> 0]

(* A bus divider string: "x = ÷y" (form "label"), a string of digits x      *)
(* (form "plain"), or any other text (form "other").                        *)
DivLabel(x, y) == [form |-> "label", x |-> x, y |-> y]

DivPlain(x) == [form |-> "plain", x |-> x, y |-> 0]

DivOther == [form |-> "other", x |-> 0, y |-> 0]

-----------------------------------------------------------------------------
(* Arithmetic helpers (denominators are positive) *)

\* Python int(): truncation toward zero of a/b
TruncDiv(a, b) == IF a >= 0 THEN a \div b ELSE -((-a) \div b)

\* Correct rounding of a/b to an integer, ties to even: what "{:.1f}" does
\* with a value that is exactly representable
RoundHalfEven(a, b) ==
    LET q == a \div b
        r == a % b
    IN  IF 2 * r < b THEN q
        ELSE IF 2 * r > b THEN q + 1
        ELSE IF q % 2 = 0 THEN q ELSE q + 1

\* f"{v:.1f}" of v = num/den hundredths: the value in tenths
Fmt1(num, den) == RoundHalfEven(num, 10 * den)

-----------------------------------------------------------------------------
(* Program constants *)

NumBuses == 7

VcoMin == 350

VcoMax == 700

SysFreqMax == 200

SysFreqHigh == 180

PbclkRed == 100

PbclkOrange == 80

Buses == 1..NumBuses

-----------------------------------------------------------------------------
(* Bounds and input sets *)

\* writes to clock configuration variables in one run
MaxEdits == 3

\* text typed into the input-frequency Entry (hundredths of a MHz)
InputFreqTexts == {Num(800), Num(825), Num(1400), Num(0), Num(-800), Garbage}

\* the readonly comboboxes of the PLL section (a selection of their values)
PllInputDivValues == {Num(1), Num(2), Num(3)}

PllMultValues == {Num(20), Num(46), Num(50), Num(51), Num(100)}

PllOutputDivValues == {Num(1), Num(2), Num(4)}

\* the readonly bus divider combobox: "i = ÷i+1" (a selection)
BusDivValues == {DivLabel(0, 1), DivLabel(1, 2), DivLabel(127, 128)}

\* values a saved clock_config.json can hold for a key
FilePllValues == {Num(0), Garbage}

FileBusDivValues == {DivPlain(0), DivPlain(3), DivOther}

-----------------------------------------------------------------------------
VARIABLES
    clock_config,   \* PIC32ProjectBuilderGUI.clock_config (the Tk variables)
    dialog,         \* the ClockConfigDialog's labels, when it is open
    edits,          \* number of writes to clock variables so far
    clock_out,      \* what generate_clock_files wrote to plib_clk.h
    uart_config,    \* PIC32ProjectBuilderGUI.uart_config
    uart_out,       \* what generate_uart_files wrote to plib_uartN.h/.c
    timer_config,   \* PIC32ProjectBuilderGUI.timer_config
    timer_edits,    \* number of writes to timer variables so far
    timer_out,      \* what generate_timer_files wrote to plib_tmrN.h/.c
    gpio_pins,      \* PIC32ProjectBuilderGUI.gpio_pins (per-pin Tk variables)
    gpio_ui,        \* the shared pin-configuration frame and its bound pin
    gpio_edits,     \* number of writes to pin variables so far
    gpio_out,       \* what generate_gpio_source wrote to plib_gpio.c
    gen_pc,         \* position of the generation thread
    gen_start,      \* the configuration when the running pass was started
    config,         \* PIC32ProjectBuilderGUI.config: the peripheral enable flags
    sections,       \* uart_container and timer_container: gridded or removed
    template,       \* the template file save_template wrote
    tpl_origin,     \* the whole configuration at the time of that save
    tpl_loads,      \* number of load_template runs on that file so far
    generated,      \* the last run of generate_peripheral_files
    h3_uart_out,    \* the UART file processed from a Harmony 3 template
    h3_tmr_out,     \* the timer file processed from a Harmony 3 template
    reconf_uart_out \* the copied UART source after reconfigure_uart_files

vars == <<clock_config, dialog, edits, clock_out,
          uart_config, uart_out, timer_config, timer_edits, timer_out,
          gpio_pins, gpio_ui, gpio_edits, gpio_out, gen_pc, gen_start,
          config, sections, template, tpl_origin, tpl_loads,
          generated, h3_uart_out, h3_tmr_out, reconf_uart_out>>

clockVars == <<clock_config, dialog, edits, clock_out>>

uartVars == <<uart_config, uart_out>>

timerVars == <<timer_config, timer_edits, timer_out>>

gpioVars == <<gpio_pins, gpio_ui, gpio_edits, gpio_out>>

genVars == <<gen_pc, gen_start>>

tplVars == <<template, tpl_origin, tpl_loads>>

libVars == <<generated, h3_uart_out, h3_tmr_out, reconf_uart_out>>

\* the project settings, the main window's sections, the template file and
\* the files of the library paths
extVars == <<config, sections, tplVars, libVars>>

-----------------------------------------------------------------------------
(* PIC32ProjectBuilderGUI.__init__: clock_config defaults *)

DefaultClockConfig ==
    [ pll_enabled     |-> TRUE,
      input_freq      |-> Num(800),
      pll_input_div   |-> Num(2),
      pll_mult        |-> Num(20),
      pll_output_div  |-> Num(1),
      system_freq     |-> 800,
      peripheral_freq |-> 800,
      pbclk_enabled   |-> [b \in Buses |-> b <= 3],
      pbclk_div       |-> [b \in Buses |-> DivLabel(0, 1)] ]

(* Labels: kind is what the text shows ("value": a frequency in tenths of  *)
(* a MHz, "na", "invalid", "disabled", "none": no text), fg the colour.    *)
Label(kind, val, fg) == [kind |-> kind, val |-> val, fg |-> fg]

(* A bus line of the clock tree text: kind "value" shows the frequency in  *)
(* tenths of a MHz and the divisor, "invalid", "disabled", "none": no text. *)
TreeLine(kind, val, divisor) == [kind |-> kind, val |-> val, divisor |-> divisor]

NoDialog ==
    [ open              |-> FALSE,
      vco_freq_label    |-> Label("none", 0, "none"),
      sys_freq_label    |-> Label("none", 0, "none"),
      freq_warning      |-> "none",
      periph_freq_label |-> Label("none", 0, "none"),
      pbclk_freq_label  |-> [b \in Buses |-> Label("none", 0, "none")],
      clock_tree        |-> [b \in Buses |-> TreeLine("none", 0, 0)] ]

\* setup_clock_ui: the labels as created
NewDialog ==
    [ open              |-> TRUE,
      vco_freq_label    |-> Label("value", 0, "green"),
      sys_freq_label    |-> Label("value", 0, "red"),
      freq_warning      |-> "",
      periph_freq_label |-> Label("value", 0, "blue"),
      pbclk_freq_label  |-> [b \in Buses |-> Label("value", 0, "blue")],
      \* the clock_tree_text widget is created empty
      clock_tree        |-> [b \in Buses |-> TreeLine("none", 0, 0)] ]

-----------------------------------------------------------------------------
(* ClockConfigDialog.calculate_pbclk_frequencies *)

\* the divisor the dialog reads from a divider string (lines 407-413)
DialogDivisor(div_str) ==
    IF div_str.form = "label" THEN div_str.y
    ELSE IF div_str.form = "plain" THEN div_str.x
    ELSE 1

\* one bus label after the calculation; the system frequency is num/den
\* hundredths of a MHz
PbclkLabel(enabled, div_str, num, den) ==
    IF ~enabled THEN Label("disabled", 0, "gray")
    ELSE LET divisor == DialogDivisor(div_str)
         IN  IF divisor = 0 THEN Label("invalid", 0, "red")
             ELSE Label("value", Fmt1(num, den * divisor),
                        IF num > PbclkRed * 100 * den * divisor THEN "red"
                        ELSE IF num > PbclkOrange * 100 * den * divisor THEN "orange"
                        ELSE "blue")

calculate_pbclk_frequencies(cfg, num, den) ==
    [b \in Buses |-> PbclkLabel(cfg.pbclk_enabled[b], cfg.pbclk_div[b], num, den)]

-----------------------------------------------------------------------------
(* ClockConfigDialog.update_clock_tree *)

\* the divisor the tree reads from a divider string (lines 463-471)
TreeDivisor(div_str) ==
    IF div_str.form = "label" THEN div_str.y
    ELSE IF div_str.form = "plain" THEN div_str.x
    ELSE 1

\* one bus line; system_freq / divisor raises on a divisor of zero and the
\* bare except writes the "Invalid" line
TreeBusLine(enabled, div_str, num, den) ==
    IF ~enabled THEN TreeLine("disabled", 0, 0)
    ELSE LET divisor == TreeDivisor(div_str)
         IN  IF divisor = 0 THEN TreeLine("invalid", 0, 0)
             ELSE TreeLine("value", Fmt1(num, den * divisor), divisor)

update_clock_tree(cfg, num, den) ==
    [b \in Buses |-> TreeBusLine(cfg.pbclk_enabled[b], cfg.pbclk_div[b], num, den)]

-----------------------------------------------------------------------------
(* ClockConfigDialog.calculate_frequencies: the trace callback of every    *)
(* clock variable. It returns the configuration and the dialog after it.   *)

\* float()/int() raise ValueError, a zero PLL divider ZeroDivisionError
CalcRaises(cfg) ==
    \/ ~cfg.input_freq.ok
    \/ /\ cfg.pll_enabled
       /\ \/ ~cfg.pll_input_div.ok
          \/ ~cfg.pll_mult.ok
          \/ ~cfg.pll_output_div.ok
          \/ cfg.pll_input_div.n = 0
          \/ cfg.pll_output_div.n = 0

\* vco_freq = (input_freq / pll_indiv) * pll_mult, as VcoNum/VcoDen
VcoNum(cfg) == cfg.input_freq.n * cfg.pll_mult.n

VcoDen(cfg) == cfg.pll_input_div.n

\* system_freq = vco_freq / pll_odiv, or input_freq with the PLL off
SysNum(cfg) == IF cfg.pll_enabled THEN VcoNum(cfg) ELSE cfg.input_freq.n

SysDen(cfg) == IF cfg.pll_enabled THEN VcoDen(cfg) * cfg.pll_output_div.n ELSE 1

VcoLabel(cfg, old) ==
    IF cfg.pll_enabled
    THEN Label("value", Fmt1(VcoNum(cfg), VcoDen(cfg)),
               IF \/ VcoNum(cfg) < VcoMin * 100 * VcoDen(cfg)
                  \/ VcoNum(cfg) > VcoMax * 100 * VcoDen(cfg)
               THEN "red" ELSE "green")
    ELSE \* only the text is set; the colour stays
         Label("na", 0, old.fg)

SysLabel(cfg) ==
    Label("value", Fmt1(SysNum(cfg), SysDen(cfg)),
          IF SysNum(cfg) > SysFreqMax * 100 * SysDen(cfg) THEN "red"
          ELSE IF SysNum(cfg) > SysFreqHigh * 100 * SysDen(cfg) THEN "orange"
          ELSE "green")

FreqWarning(cfg) ==
    IF SysNum(cfg) > SysFreqMax * 100 * SysDen(cfg) THEN "exceeds maximum"
    ELSE IF SysNum(cfg) > SysFreqHigh * 100 * SysDen(cfg) THEN "high frequency"
    ELSE ""

\* what is stored in clock_config['system_freq']: f"{system_freq:.1f}"
StoredSystemFreq(cfg) == Fmt1(SysNum(cfg), SysDen(cfg))

calculate_frequencies(cfg, d) ==
    IF CalcRaises(cfg)
    THEN \* except (ValueError, ZeroDivisionError): two labels, nothing else
         [ cfg |-> cfg,
           dlg |-> [d EXCEPT !.sys_freq_label = Label("invalid", 0, "red"),
                             !.periph_freq_label = Label("invalid", 0, "red")] ]
    ELSE [ cfg |-> [cfg EXCEPT !.system_freq = StoredSystemFreq(cfg),
                               !.peripheral_freq = StoredSystemFreq(cfg)],
           dlg |-> [ open              |-> TRUE,
                     vco_freq_label    |-> VcoLabel(cfg, d.vco_freq_label),
                     sys_freq_label    |-> SysLabel(cfg),
                     freq_warning      |-> FreqWarning(cfg),
                     periph_freq_label |->
                         Label("value", StoredSystemFreq(cfg), d.periph_freq_label.fg),
                     pbclk_freq_label  |->
                         calculate_pbclk_frequencies(cfg, SysNum(cfg), SysDen(cfg)),
                     clock_tree        |->
                         update_clock_tree(cfg, SysNum(cfg), SysDen(cfg)) ] ]

-----------------------------------------------------------------------------
(* Writes to the clock variables. With the dialog open every write runs    *)
(* the trace callback calculate_frequencies.                               *)

WriteClock(cfg) ==
    /\ dialog.open
    /\ edits < MaxEdits
    /\ edits' = edits + 1
    /\ LET r == calculate_frequencies(cfg, dialog)
       IN  /\ clock_config' = r.cfg
           /\ dialog' = r.dlg
    /\ UNCHANGED <<clock_out, uartVars, timerVars, gpioVars, genVars, extVars>>

\* PIC32ProjectBuilderGUI.open_clock_config -> ClockConfigDialog.__init__:
\* setup_clock_ui, then setup_calculations with its initial calculation
OpenClockConfig ==
    /\ ~dialog.open
    /\ LET r == calculate_frequencies(clock_config, NewDialog)
       IN  /\ clock_config' = r.cfg
           /\ dialog' = r.dlg
    /\ UNCHANGED <<edits, clock_out, uartVars, timerVars, gpioVars, genVars, extVars>>

\* apply_config / Cancel: dialog.destroy()
CloseDialog ==
    /\ dialog.open
    /\ dialog' = NoDialog
    /\ UNCHANGED <<clock_config, edits, clock_out, uartVars, timerVars, gpioVars, genVars, extVars>>

EditInputFreq ==
    \E v \in InputFreqTexts :
        WriteClock([clock_config EXCEPT !.input_freq = v])

TogglePll ==
    WriteClock([clock_config EXCEPT !.pll_enabled = ~clock_config.pll_enabled])

SelectPllInputDiv ==
    \E v \in PllInputDivValues :
        WriteClock([clock_config EXCEPT !.pll_input_div = v])

SelectPllMult ==
    \E v \in PllMultValues :
        WriteClock([clock_config EXCEPT !.pll_mult = v])

SelectPllOutputDiv ==
    \E v \in PllOutputDivValues :
        WriteClock([clock_config EXCEPT !.pll_output_div = v])

ToggleBus ==
    \E b \in Buses :
        WriteClock([clock_config EXCEPT
                        !.pbclk_enabled[b] = ~clock_config.pbclk_enabled[b]])

SelectBusDiv ==
    \E b \in Buses, v \in BusDivValues :
        WriteClock([clock_config EXCEPT !.pbclk_div[b] = v])

\* refresh_config with a saved file holding one key: load_config_from_file
\* sets it (trace callback), then calculate_frequencies runs again
RefreshPllKey ==
    \E v \in FilePllValues :
        \/ WriteClock([clock_config EXCEPT !.pll_input_div = v])
        \/ WriteClock([clock_config EXCEPT !.pll_output_div = v])
        \/ WriteClock([clock_config EXCEPT !.pll_mult = v])

RefreshBusDiv ==
    \E b \in Buses, v \in FileBusDivValues :
        WriteClock([clock_config EXCEPT !.pbclk_div[b] = v])

-----------------------------------------------------------------------------
(* PIC32ProjectBuilderGUI.generate_clock_files: the values written to      *)
(* plib_clk.h. It reads the stored system_freq string, not the inputs.     *)

\* tenths of a MHz whose double, times 1000000, falls just short of the
\* integer (float("8.2") * 1000000 is 8199999.999999999), among the values
\* the input sets produce
FloatShortTenths == {82, 333}

\* int(float(text) * 1000000) of a text in tenths of a MHz
TenthsToHz(t) ==
    IF t \in FloatShortTenths THEN t * 100000 - 1
    ELSE IF (-t) \in FloatShortTenths THEN t * 100000 + 1
    ELSE t * 100000

\* int(float(input_freq) * 1000000), input_freq in hundredths of a MHz
HundredthsToHz(n) == n * 10000

\* the register value and divisor generate_clock_files reads (lines 3537-3545)
HeaderRegVal(div_str) ==
    IF div_str.form = "other" THEN 0 ELSE div_str.x

HeaderDivisor(div_str) ==
    IF div_str.form = "label" THEN div_str.y ELSE HeaderRegVal(div_str) + 1

HeaderBus(enabled, div_str, system_hz) ==
    [ enabled |-> enabled,
      freq    |-> IF enabled THEN TruncDiv(system_hz, HeaderDivisor(div_str)) ELSE 0,
      reg_val |-> IF enabled THEN HeaderRegVal(div_str) ELSE 0,
      divisor |-> IF enabled THEN HeaderDivisor(div_str) ELSE 1 ]

\* float(input_freq) raises ValueError, a divisor of zero ZeroDivisionError:
\* the exception leaves generate_clock_files before anything is written
ClockGenRaises(cfg) ==
    \/ ~cfg.input_freq.ok
    \/ \E b \in Buses :
          cfg.pbclk_enabled[b] /\ HeaderDivisor(cfg.pbclk_div[b]) = 0

NoClockFile ==
    [ written         |-> FALSE,
      system_hz       |-> 0,
      peripheral_hz   |-> 0,
      input_hz        |-> 0,
      pll_enabled     |-> FALSE,
      input_freq      |-> Garbage,
      pll_input_div   |-> Garbage,
      pll_mult        |-> Garbage,
      pll_output_div  |-> Garbage,
      bus             |-> [b \in Buses |-> HeaderBus(FALSE, DivOther, 0)] ]

ClockHeader(cfg) ==
    [ written         |-> TRUE,
      system_hz       |-> TenthsToHz(cfg.system_freq),
      peripheral_hz   |-> TenthsToHz(cfg.peripheral_freq),
      input_hz        |-> HundredthsToHz(cfg.input_freq.n),
      pll_enabled     |-> cfg.pll_enabled,
      input_freq      |-> cfg.input_freq,
      \* the PLL defines are written only with the PLL enabled
      pll_input_div   |-> IF cfg.pll_enabled THEN cfg.pll_input_div ELSE Garbage,
      pll_mult        |-> IF cfg.pll_enabled THEN cfg.pll_mult ELSE Garbage,
      pll_output_div  |-> IF cfg.pll_enabled THEN cfg.pll_output_div ELSE Garbage,
      bus             |-> [b \in Buses |->
                             HeaderBus(cfg.pbclk_enabled[b], cfg.pbclk_div[b],
                                       TenthsToHz(cfg.system_freq))] ]

\* the clock dialog is modal: generation runs with the dialog closed
generate_clock_files ==
    /\ ~dialog.open
    /\ ~ClockGenRaises(clock_config)
    /\ clock_out' = ClockHeader(clock_config)
    /\ UNCHANGED <<clock_config, dialog, edits, uartVars, timerVars, gpioVars, genVars, extVars>>

-----------------------------------------------------------------------------
(* UART: uart_config and generate_uart_files *)

\* the peripheral clock generate_uart_files and generate_timer_files assume
AssumedPbclkHz == 80000000

BrgFallback == 129

UartOnBit == 32768

DefaultUartConfig ==
    [ baud_rate |-> Num(115200),
      data_bits |-> "8",
      parity    |-> "None",
      stop_bits |-> "1" ]

\* text typed into (or picked from) the editable baud-rate combobox
BaudRateTexts ==
    {Num(9600), Num(115200), Num(921600), Num(5000000), Num(20000000),
     Num(0), Num(-9600), Garbage}

DataBitsValues == {"8", "9"}

ParityValues == {"None", "Even", "Odd"}

StopBitsValues == {"1", "2"}

\* int(a / b - 1) for a >= 0 and b # 0: Python's float division, then int()
IntQuotientMinusOne(a, b) ==
    IF b > 0 THEN TruncDiv(a - b, b) ELSE TruncDiv(-(a + (-b)), -b)

\* lines 2389-2393: the try block and its bare except
BrgValue(baud_rate) ==
    IF ~baud_rate.ok \/ baud_rate.n = 0 THEN BrgFallback
    ELSE IntQuotientMinusOne(AssumedPbclkHz, 16 * baud_rate.n)

\* UartParityBits with the parity test ahead of the data-width test
UartParityBits_ParityFirst(data_bits, parity) ==
    IF parity = "Even" THEN 2
    ELSE IF parity = "Odd" THEN 4
    ELSE IF data_bits = "9" THEN 8
    ELSE 0

\* lines 2399-2410: the PDSEL pattern
UartParityBits(data_bits, parity) ==
    IF data_bits = "9" THEN 8
    ELSE IF parity = "Even" THEN 2
    ELSE IF parity = "Odd" THEN 4
    ELSE 0

\* lines 2412-2416: STSEL
UartStopBits(stop_bits) == IF stop_bits = "2" THEN 1 ELSE 0

\* '0x8000 | ...': the masks are disjoint, so the value is their sum
UartModeValue(cfg) ==
    UartOnBit + UartParityBits(cfg.data_bits, cfg.parity) + UartStopBits(cfg.stop_bits)

NoUartFile ==
    [ written   |-> FALSE,
      baud_rate |-> Garbage,
      data_bits |-> "",
      parity    |-> "",
      stop_bits |-> "",
      brg_value |-> 0,
      uart_mode_value |-> 0 ]

\* the header comment carries the four settings, the source BRG and MODE
UartFile(cfg) ==
    [ written   |-> TRUE,
      baud_rate |-> cfg.baud_rate,
      data_bits |-> cfg.data_bits,
      parity    |-> cfg.parity,
      stop_bits |-> cfg.stop_bits,
      brg_value |-> BrgValue(cfg.baud_rate),
      uart_mode_value |-> UartModeValue(cfg) ]

generate_uart_files ==
    /\ uart_out' = UartFile(uart_config)
    /\ UNCHANGED <<uart_config, clockVars, timerVars, gpioVars, genVars, extVars>>

WriteUart(cfg) ==
    /\ cfg # uart_config
    /\ uart_config' = cfg
    /\ UNCHANGED <<uart_out, clockVars, timerVars, gpioVars, genVars, extVars>>

EditBaudRate ==
    \E v \in BaudRateTexts : WriteUart([uart_config EXCEPT !.baud_rate = v])

SelectDataBits ==
    \E v \in DataBitsValues : WriteUart([uart_config EXCEPT !.data_bits = v])

SelectParity ==
    \E v \in ParityValues : WriteUart([uart_config EXCEPT !.parity = v])

SelectStopBits ==
    \E v \in StopBitsValues : WriteUart([uart_config EXCEPT !.stop_bits = v])

-----------------------------------------------------------------------------
(* Timer: timer_config and generate_timer_files *)

Max16 == 65535

PeriodFallback == 80000

\* writes to timer variables in one run
MaxTimerEdits == 3

DefaultTimerConfig ==
    [ timer_mode     |-> "16-bit",
      prescaler      |-> "1:1",
      period_mode    |-> "Frequency",
      frequency      |-> Num(1000),     \* Hz
      period_ms      |-> Num(10),       \* tenths of a millisecond: '1.0'
      period_us      |-> Num(1000),     \* microseconds
      period_count   |-> Num(80000),
      gate_enable    |-> FALSE,
      external_clock |-> FALSE,
      stop_in_idle   |-> FALSE ]

TimerModeValues == {"16-bit", "32-bit (TMRx/TMRy)"}

PrescalerValues == {"1:1", "1:8", "1:64", "1:256"}

PeriodModeValues == {"Frequency", "Period (ms)", "Period (us)", "Count Value"}

\* text typed into the Entry widgets
FrequencyTexts ==
    {Num(1000), Num(3000), Num(1220), Num(100), Num(100000000),
     Num(0), Num(-1000), Garbage}

PeriodMsTexts == {Num(10), Num(5), Num(100), Num(0), Garbage}

PeriodUsTexts == {Num(1000), Num(3), Num(1000000), Garbage}

PeriodCountTexts == {Num(80000), Num(65535), Num(65536), Num(-5), Garbage}

\* prescaler_map.get(prescaler, (0, 1))
PrescalerReg(prescaler) ==
    CASE prescaler = "1:8" -> 1
      [] prescaler = "1:64" -> 2
      [] prescaler = "1:256" -> 3
      [] OTHER -> 0

PrescalerDiv(prescaler) ==
    CASE prescaler = "1:8" -> 8
      [] prescaler = "1:64" -> 64
      [] prescaler = "1:256" -> 256
      [] OTHER -> 1

\* 80000000 / prescaler_div: exact for every divisor of the map
PrescaledClock(prescaler) == AssumedPbclkHz \div PrescalerDiv(prescaler)

\* TimerPeriodRaw with the prescaler left out of the millisecond derivation
TimerPeriodRaw_MsUnscaled(cfg) ==
    CASE cfg.period_mode = "Frequency" ->
            IF ~cfg.frequency.ok \/ cfg.frequency.n = 0 THEN PeriodFallback
            ELSE IntQuotientMinusOne(PrescaledClock(cfg.prescaler), cfg.frequency.n)
      [] cfg.period_mode = "Period (ms)" ->
            IF ~cfg.period_ms.ok THEN PeriodFallback
            ELSE 8000 * cfg.period_ms.n - 1
      [] cfg.period_mode = "Period (us)" ->
            IF ~cfg.period_us.ok THEN PeriodFallback
            ELSE TruncDiv(80 * cfg.period_us.n - PrescalerDiv(cfg.prescaler),
                          PrescalerDiv(cfg.prescaler))
      [] cfg.period_mode = "Count Value" ->
            IF ~cfg.period_count.ok THEN PeriodFallback
            ELSE cfg.period_count.n
      [] OTHER -> PeriodFallback

\* lines 2712-2733: pr_value before the limit
TimerPeriodRaw(cfg) ==
    CASE cfg.period_mode = "Frequency" ->
            IF ~cfg.frequency.ok \/ cfg.frequency.n = 0 THEN PeriodFallback
            ELSE IntQuotientMinusOne(PrescaledClock(cfg.prescaler), cfg.frequency.n)
      [] cfg.period_mode = "Period (ms)" ->
            IF ~cfg.period_ms.ok THEN PeriodFallback
            ELSE TruncDiv(8000 * cfg.period_ms.n - PrescalerDiv(cfg.prescaler),
                          PrescalerDiv(cfg.prescaler))
      [] cfg.period_mode = "Period (us)" ->
            IF ~cfg.period_us.ok THEN PeriodFallback
            ELSE TruncDiv(80 * cfg.period_us.n - PrescalerDiv(cfg.prescaler),
                          PrescalerDiv(cfg.prescaler))
      [] cfg.period_mode = "Count Value" ->
            IF ~cfg.period_count.ok THEN PeriodFallback
            ELSE cfg.period_count.n
      [] OTHER -> PeriodFallback

Min(a, b) == IF a < b THEN a ELSE b

\* PeriodLimitBits taking the 32-bit limit for the mode named '32-bit' only
PeriodLimitBits_ByShortName(timer_mode) ==
    IF timer_mode = "32-bit" THEN 32 ELSE 16

\* lines 2736-2739: the width of the limit min() applies, 0xFFFF for the
\* mode '16-bit' and 0xFFFFFFFF for every other mode
PeriodLimitBits(timer_mode) ==
    IF timer_mode = "16-bit" THEN 16 ELSE 32

\* lines 2736-2739; the values of the model stay below 0xFFFFFFFF
LimitPeriod(timer_mode, pr_value) ==
    IF PeriodLimitBits(timer_mode) = 16 THEN Min(pr_value, Max16) ELSE pr_value

\* lines 2841-2844 and 2940-2958: uint32_t for the mode '32-bit (TMRx/TMRy)',
\* else uint16_t, in the period and counter accessors
AccessorBits(timer_mode) ==
    IF timer_mode = "32-bit (TMRx/TMRy)" THEN 32 ELSE 16

\* TconBits with the gate bit following the external-clock flag
TconBits_GateByClock(cfg) ==
    (IF cfg.timer_mode = "32-bit (TMRx/TMRy)" THEN {"T32"} ELSE {})
    \cup (IF cfg.external_clock THEN {"TGATE", "TCS"} ELSE {})
    \cup (IF cfg.stop_in_idle THEN {"SIDL"} ELSE {})

\* lines 2742-2780: the masks or-ed into TxCON, and the TCKPS field
TconBits(cfg) ==
    (IF cfg.timer_mode = "32-bit (TMRx/TMRy)" THEN {"T32"} ELSE {})
    \cup (IF cfg.gate_enable THEN {"TGATE"} ELSE {})
    \cup (IF cfg.external_clock THEN {"TCS"} ELSE {})
    \cup (IF cfg.stop_in_idle THEN {"SIDL"} ELSE {})

\* lines 2783-2790: actual_freq = 80000000 / (prescaler_div * (pr_value + 1)),
\* shown in tenths of a kHz from 1000 Hz up, else in tenths of a Hz
FreqDisplay(prescaler, pr_value) ==
    LET q == PrescaledClock(prescaler)
        n == pr_value + 1
    IN  IF n = 0 THEN [unit |-> "none", tenths |-> 0]
        ELSE IF n > 0 /\ n <= q \div 1000
             THEN [unit |-> "kHz", tenths |-> RoundHalfEven(q, 100 * n)]
        ELSE IF n > 0
             THEN [unit |-> "Hz", tenths |-> RoundHalfEven(10 * q, n)]
        ELSE [unit |-> "Hz", tenths |-> RoundHalfEven(-(10 * q), -n)]

NoTimerFile ==
    [ written      |-> FALSE,
      args         |-> DefaultTimerConfig,
      pr_value     |-> 0,
      tckps        |-> 0,
      tcon_bits    |-> {},
      period_limit_bits |-> 16,
      accessor_bits     |-> 16,
      freq_display |-> [unit |-> "none", tenths |-> 0],
      log          |-> {} ]

\* args: the configuration values the function read (lines 2684-2700)
TimerFile(cfg) ==
    [ written      |-> TRUE,
      args         |-> cfg,
      pr_value     |-> LimitPeriod(cfg.timer_mode, TimerPeriodRaw(cfg)),
      tckps        |-> PrescalerReg(cfg.prescaler),
      tcon_bits    |-> TconBits(cfg),
      period_limit_bits |-> PeriodLimitBits(cfg.timer_mode),
      accessor_bits     |-> AccessorBits(cfg.timer_mode),
      freq_display |-> FreqDisplay(cfg.prescaler,
                                   LimitPeriod(cfg.timer_mode, TimerPeriodRaw(cfg))),
      \* self.log: "Creating TMRx files..." is the only message
      log          |-> {"creating"} ]

generate_timer_files ==
    /\ timer_out' = TimerFile(timer_config)
    /\ UNCHANGED <<timer_config, timer_edits, clockVars, uartVars, gpioVars, genVars, extVars>>

WriteTimer(cfg) ==
    /\ cfg # timer_config
    /\ timer_edits < MaxTimerEdits
    /\ timer_edits' = timer_edits + 1
    /\ timer_config' = cfg
    /\ UNCHANGED <<timer_out, clockVars, uartVars, gpioVars, genVars, extVars>>

SelectTimerMode ==
    \E v \in TimerModeValues : WriteTimer([timer_config EXCEPT !.timer_mode = v])

SelectPrescaler ==
    \E v \in PrescalerValues : WriteTimer([timer_config EXCEPT !.prescaler = v])

SelectPeriodMode ==
    \E v \in PeriodModeValues : WriteTimer([timer_config EXCEPT !.period_mode = v])

EditFrequency ==
    \E v \in FrequencyTexts : WriteTimer([timer_config EXCEPT !.frequency = v])

EditPeriodMs ==
    \E v \in PeriodMsTexts : WriteTimer([timer_config EXCEPT !.period_ms = v])

EditPeriodUs ==
    \E v \in PeriodUsTexts : WriteTimer([timer_config EXCEPT !.period_us = v])

EditPeriodCount ==
    \E v \in PeriodCountTexts : WriteTimer([timer_config EXCEPT !.period_count = v])

ToggleGateEnable ==
    WriteTimer([timer_config EXCEPT !.gate_enable = ~timer_config.gate_enable])

ToggleExternalClock ==
    WriteTimer([timer_config EXCEPT !.external_clock = ~timer_config.external_clock])

ToggleStopInIdle ==
    WriteTimer([timer_config EXCEPT !.stop_in_idle = ~timer_config.stop_in_idle])

-----------------------------------------------------------------------------
(* GPIO: gpio_pins, the shared pin-configuration frame, generate_gpio_files *)

\* writes to pin variables in one run
MaxGpioEdits == 4

\* three entries of pin_database (init_gpio_pin_database): one with an
\* analog channel, two without, one of them with two alternate functions
GpioPins == {"RA0", "RA6", "RF2"}

\* pin_database[pin]['analog'] is not None
PinHasAnalog(pin) == pin = "RA0"

\* pin_database[pin]['alt_functions']
PinAltFunctions(pin) ==
    CASE pin = "RA0" -> {"VREF+"}
      [] pin = "RA6" -> {"TRCLK"}
      [] pin = "RF2" -> {"U1RTS", "SCL2"}
      [] OTHER -> {}

\* gpio_pins[pin] as created (lines 829-862), the fields the model follows
DefaultPinConfig ==
    [ enabled        |-> FALSE,
      analog_enabled |-> FALSE,
      pull_up        |-> FALSE,
      pull_down      |-> FALSE,
      alt_function   |-> "GPIO" ]

\* the pin-configuration frame is created hidden, bound to no pin
NoPinFrame == [shown |-> FALSE, pin |-> "none"]

\* AltFunctionChoices offering the functions of every pin
AltFunctionChoices_AnyPin(pin) ==
    {"GPIO"} \cup UNION {PinAltFunctions(q) : q \in GpioPins}

\* load_pin_configuration: the values of the alternate-function combobox
AltFunctionChoices(pin) == {"GPIO"} \cup PinAltFunctions(pin)

WritePins(pins) ==
    /\ gpio_edits < MaxGpioEdits
    /\ gpio_edits' = gpio_edits + 1
    /\ gpio_pins' = pins
    /\ UNCHANGED <<gpio_out, clockVars, uartVars, timerVars, genVars, extVars>>

\* the pin's checkbox and its command on_pin_selected: an enabled pin is
\* bound to the shared widgets and the frame shown; the frame is hidden when
\* the last pin is disabled
TogglePinEnabled ==
    \E p \in GpioPins :
        LET pins == [gpio_pins EXCEPT ![p].enabled = ~gpio_pins[p].enabled]
        IN  /\ WritePins(pins)
            /\ gpio_ui' = IF pins[p].enabled THEN [shown |-> TRUE, pin |-> p]
                          ELSE IF \A q \in GpioPins : ~pins[q].enabled
                               THEN [gpio_ui EXCEPT !.shown = FALSE]
                          ELSE gpio_ui

\* the shared checkbuttons and combobox write the bound pin's variables
ToggleAnalog ==
    /\ gpio_ui.shown
    /\ WritePins([gpio_pins EXCEPT ![gpio_ui.pin].analog_enabled =
                                      ~gpio_pins[gpio_ui.pin].analog_enabled])
    /\ UNCHANGED gpio_ui

TogglePullUp ==
    /\ gpio_ui.shown
    /\ WritePins([gpio_pins EXCEPT ![gpio_ui.pin].pull_up =
                                      ~gpio_pins[gpio_ui.pin].pull_up])
    /\ UNCHANGED gpio_ui

TogglePullDown ==
    /\ gpio_ui.shown
    /\ WritePins([gpio_pins EXCEPT ![gpio_ui.pin].pull_down =
                                      ~gpio_pins[gpio_ui.pin].pull_down])
    /\ UNCHANGED gpio_ui

SelectAltFunction ==
    /\ gpio_ui.shown
    /\ \E f \in AltFunctionChoices(gpio_ui.pin) :
          /\ f # gpio_pins[gpio_ui.pin].alt_function
          /\ WritePins([gpio_pins EXCEPT ![gpio_ui.pin].alt_function = f])
    /\ UNCHANGED gpio_ui

\* GpioAnsel writing ANSELxSET whatever the pin database says
GpioAnsel_NoChannelCheck(has_analog, analog_enabled) ==
    IF analog_enabled THEN [ansel |-> "set", notes |-> {}]
    ELSE [ansel |-> "clr", notes |-> {}]

\* lines 3205-3215: the ANSEL write of a pin, or the note in its place
GpioAnsel(has_analog, analog_enabled) ==
    IF analog_enabled
    THEN IF has_analog THEN [ansel |-> "set", notes |-> {}]
         ELSE [ansel |-> "none", notes |-> {"no analog function"}]
    ELSE [ansel |-> "clr", notes |-> {}]

\* a pin generate_gpio_source skips: it is not enabled
NoPinLines ==
    [ configured  |-> FALSE,
      args        |-> DefaultPinConfig,
      ansel       |-> "none",
      notes       |-> {},
      pull_up     |-> FALSE,
      pull_down   |-> FALSE,
      alt_comment |-> "none" ]

\* the initialization lines of one enabled pin (lines 3171-3273): the ANSEL
\* write or note, CNPUxSET, CNPDxSET and the alternate-function comment
PinLines(pin, cfg) ==
    [ configured  |-> TRUE,
      args        |-> cfg,
      ansel       |-> GpioAnsel(PinHasAnalog(pin), cfg.analog_enabled).ansel,
      notes       |-> GpioAnsel(PinHasAnalog(pin), cfg.analog_enabled).notes,
      pull_up     |-> cfg.pull_up,
      pull_down   |-> cfg.pull_down,
      alt_comment |-> IF cfg.alt_function # "GPIO" THEN cfg.alt_function ELSE "none" ]

NoGpioFile == [written |-> FALSE, pins |-> [p \in GpioPins |-> NoPinLines]]

GpioSource(pins) ==
    [ written |-> TRUE,
      pins    |-> [p \in GpioPins |->
                     IF pins[p].enabled THEN PinLines(p, pins[p]) ELSE NoPinLines] ]

\* with no pin enabled the function logs and returns before writing
generate_gpio_files ==
    /\ gpio_out' = IF \E p \in GpioPins : gpio_pins[p].enabled
                   THEN GpioSource(gpio_pins)
                   ELSE gpio_out
    /\ UNCHANGED <<gpio_pins, gpio_ui, gpio_edits,
                   clockVars, uartVars, timerVars, genVars, extVars>>

-----------------------------------------------------------------------------
(* PIC32ProjectBuilderGUI.config: the peripheral enable flags, and the     *)
(* combined communication/timer section of the main window. The flags'     *)
(* checkbuttons write the Tk variable; Tk then runs the variable's write   *)
(* traces, the most recently registered first.                             *)

\* lines 618-624
DefaultConfig ==
    [ uart_enabled  |-> TRUE,
      timer_enabled |-> TRUE,
      gpio_enabled  |-> TRUE,
      clock_enabled |-> TRUE,
      dma_enabled   |-> FALSE,
      spi_enabled   |-> FALSE,
      i2c_enabled   |-> FALSE ]

\* setup_uart_section and setup_timer_section end in grid_remove()
SectionsRemoved == [uart_container |-> FALSE, timer_container |-> FALSE]

\* lines 989-1011: the UART section if UART is enabled, else the Timer
\* section if Timer is enabled, else neither
update_communication_timer_visibility(cfg, sec) ==
    IF cfg.uart_enabled
    THEN [uart_container |-> TRUE, timer_container |-> FALSE]
    ELSE IF cfg.timer_enabled
         THEN [uart_container |-> FALSE, timer_container |-> TRUE]
    ELSE [uart_container |-> FALSE, timer_container |-> FALSE]

\* lines 1217-1229: the UART container follows the UART flag
toggle_uart_section(cfg, sec) ==
    [sec EXCEPT !.uart_container = cfg.uart_enabled]

\* lines 1482-1494: the Timer container follows the Timer flag
toggle_timer_section(cfg, sec) ==
    [sec EXCEPT !.timer_container = cfg.timer_enabled]

\* config['uart_enabled'].set(v): the traces of lines 984 and 1202, the one
\* registered last (line 984) first
SetUartEnabled(cfg, sec, v) ==
    LET c == [cfg EXCEPT !.uart_enabled = v]
    IN  [ config   |-> c,
          sections |-> toggle_uart_section(c,
                          update_communication_timer_visibility(c, sec)) ]

\* config['timer_enabled'].set(v): the traces of lines 986 and 1443, the one
\* registered last (line 986) first
SetTimerEnabled(cfg, sec, v) ==
    LET c == [cfg EXCEPT !.timer_enabled = v]
    IN  [ config   |-> c,
          sections |-> toggle_timer_section(c,
                          update_communication_timer_visibility(c, sec)) ]

\* the "UART (Serial Communication)" checkbutton
ToggleUartEnabled ==
    /\ ~dialog.open
    /\ LET r == SetUartEnabled(config, sections, ~config.uart_enabled)
       IN  /\ config' = r.config
           /\ sections' = r.sections
    /\ UNCHANGED <<clockVars, uartVars, timerVars, gpioVars, genVars,
                   tplVars, libVars>>

\* the "Timer (TMR1)" checkbutton
ToggleTimerEnabled ==
    /\ ~dialog.open
    /\ LET r == SetTimerEnabled(config, sections, ~config.timer_enabled)
       IN  /\ config' = r.config
           /\ sections' = r.sections
    /\ UNCHANGED <<clockVars, uartVars, timerVars, gpioVars, genVars,
                   tplVars, libVars>>

\* the flags whose variables have no trace on the combined section
OtherFlags == {"gpio_enabled", "clock_enabled", "dma_enabled",
               "spi_enabled", "i2c_enabled"}

\* a checkbutton of one of these flags
ToggleFlag(k) ==
    /\ ~dialog.open
    /\ config' = [config EXCEPT ![k] = ~config[k]]
    /\ UNCHANGED <<clockVars, uartVars, timerVars, gpioVars, genVars,
                   sections, tplVars, libVars>>

\* the "DMA (Direct Memory Access)" checkbutton
ToggleDmaEnabled == ToggleFlag("dma_enabled")

\* the "SPI (Serial Peripheral Interface)" checkbutton
ToggleSpiEnabled == ToggleFlag("spi_enabled")

-----------------------------------------------------------------------------
(* save_template and load_template. The file holds project_configuration,  *)
(* uart_configuration and clock_configuration: the .get() of every          *)
(* variable of config, uart_config and clock_config, which json writes and  *)
(* reads back unchanged (strings and booleans).                             *)

\* load_template runs on the saved file
MaxLoads == 2

\* no file has been saved
NoTemplate ==
    [ saved                 |-> FALSE,
      project_configuration |-> DefaultConfig,
      uart_configuration    |-> DefaultUartConfig,
      clock_configuration   |-> DefaultClockConfig ]

\* lines 6036-6047: config_data
TemplateOf(cfg, uart, clock) ==
    [ saved                 |-> TRUE,
      project_configuration |-> cfg,
      uart_configuration    |-> uart,
      clock_configuration   |-> clock ]

\* every configuration dictionary of the program
WholeConfiguration(cfg, uart, clock, timer, pins) ==
    [ config |-> cfg, uart |-> uart, clock |-> clock,
      timer |-> timer, gpio |-> pins ]

save_template ==
    /\ ~dialog.open
    /\ template' = TemplateOf(config, uart_config, clock_config)
    /\ tpl_origin' = WholeConfiguration(config, uart_config, clock_config,
                                        timer_config, gpio_pins)
    /\ UNCHANGED <<clockVars, uartVars, timerVars, gpioVars, genVars,
                   config, sections, tpl_loads, libVars>>

\* lines 6086-6088: the keys of project_configuration are set in the order
\* of the file, uart_enabled before timer_enabled, each with its traces
LoadProjectConfiguration(cfg, sec, file) ==
    LET r1 == SetUartEnabled(cfg, sec, file.uart_enabled)
        r2 == SetTimerEnabled(r1.config, r1.sections, file.timer_enabled)
    IN  [ config   |-> [k \in DOMAIN file |->
                          IF k \in OtherFlags THEN file[k] ELSE r2.config[k]],
          sections |-> r2.sections ]

\* load_template on the file save_template wrote: the keys of config,
\* uart_config and clock_config are set, timer_config and gpio_pins are not
\* in the file; no clock dialog is open, so nothing is recalculated
LoadSavedTemplate ==
    /\ ~dialog.open
    /\ template.saved
    /\ tpl_loads < MaxLoads
    /\ tpl_loads' = tpl_loads + 1
    /\ LET r == LoadProjectConfiguration(config, sections,
                                         template.project_configuration)
       IN  /\ config' = r.config
           /\ sections' = r.sections
    /\ uart_config' = template.uart_configuration
    /\ clock_config' = template.clock_configuration
    /\ UNCHANGED <<dialog, edits, clock_out, uart_out, timerVars, gpioVars,
                   genVars, template, tpl_origin, libVars>>

-----------------------------------------------------------------------------
(* The library paths of generate_peripheral_files: Harmony 3 templates are *)
(* processed by substitute_harmony3_placeholders, files copied from a      *)
(* traditional peripheral library are reconfigured, and the custom         *)
(* generators write the files when no library is found.                    *)

\* line 5201: the BRG value when the baud rate does not parse
H3BrgFallback == 42

\* substitute_harmony3_placeholders, lines 5197-5201: ${BRG_VALUE}
Harmony3Brg(baud_rate) ==
    IF ~baud_rate.ok \/ baud_rate.n = 0 THEN H3BrgFallback
    ELSE IntQuotientMinusOne(AssumedPbclkHz, 16 * baud_rate.n)

NoH3UartFile == [written |-> FALSE, baud_rate |-> Garbage, brg_value |-> 0]

\* the UART template after the substitution
H3UartFile(cfg) ==
    [ written   |-> TRUE,
      baud_rate |-> cfg.baud_rate,
      brg_value |-> Harmony3Brg(cfg.baud_rate) ]

\* reconfigure_uart_files, lines 5027-5033: /*BRG_PLACEHOLDER*/ is replaced
\* by "UxBRG = value;", or left in the file when the try block raises
NoReconfUartFile ==
    [written |-> FALSE, baud_rate |-> Garbage, replaced |-> FALSE, brg_value |-> 0]

ReconfUartFile(cfg) ==
    IF ~cfg.baud_rate.ok \/ cfg.baud_rate.n = 0
    THEN [ written |-> TRUE, baud_rate |-> cfg.baud_rate,
           replaced |-> FALSE, brg_value |-> 0 ]
    ELSE [ written |-> TRUE, baud_rate |-> cfg.baud_rate,
           replaced |-> TRUE,
           brg_value |-> IntQuotientMinusOne(AssumedPbclkHz, 16 * cfg.baud_rate.n) ]

\* lines 5225-5228: float(frequency) raises ValueError, a frequency of zero
\* ZeroDivisionError; process_harmony3_template_file then copies the
\* template as it is
Harmony3TmrRaises(cfg) == ~cfg.frequency.ok \/ cfg.frequency.n = 0

NoH3TmrFile ==
    [ written       |-> FALSE,
      args          |-> DefaultTimerConfig,
      substituted   |-> FALSE,
      prescaler_val |-> 0,
      period_reg    |-> 0 ]

\* substitute_harmony3_placeholders, lines 5218-5229: ${TIMER_PRESCALER} and
\* ${TIMER_PERIOD_REG}, from the prescaler and the frequency alone
H3TmrFile(cfg) ==
    IF Harmony3TmrRaises(cfg)
    THEN [ written |-> TRUE, args |-> cfg, substituted |-> FALSE,
           prescaler_val |-> 0, period_reg |-> 0 ]
    ELSE [ written       |-> TRUE,
           args          |-> cfg,
           substituted   |-> TRUE,
           prescaler_val |-> PrescalerReg(cfg.prescaler),
           period_reg    |-> IntQuotientMinusOne(PrescaledClock(cfg.prescaler),
                                                 cfg.frequency.n) ]

\* copy_harmony3_peripheral_templates(..., 'uart') on a UART template
harmony3_uart_templates ==
    /\ h3_uart_out' = H3UartFile(uart_config)
    /\ UNCHANGED <<clockVars, uartVars, timerVars, gpioVars, genVars,
                   config, sections, tplVars,
                   generated, h3_tmr_out, reconf_uart_out>>

\* copy_harmony3_peripheral_templates(..., 'tmr') on a timer template
harmony3_tmr_templates ==
    /\ h3_tmr_out' = H3TmrFile(timer_config)
    /\ UNCHANGED <<clockVars, uartVars, timerVars, gpioVars, genVars,
                   config, sections, tplVars,
                   generated, h3_uart_out, reconf_uart_out>>

\* copy_and_configure_uart_files with files found in the library
reconfigure_uart_files ==
    /\ reconf_uart_out' = ReconfUartFile(uart_config)
    /\ UNCHANGED <<clockVars, uartVars, timerVars, gpioVars, genVars,
                   config, sections, tplVars,
                   generated, h3_uart_out, h3_tmr_out>>

Peripherals == {"uart", "timer", "gpio", "clock", "dma", "spi", "i2c"}

LibraryPaths == {"harmony3", "traditional", "custom"}

\* the peripherals whose files a traditional library can hold
CopiedPeripherals == {"uart", "timer", "gpio", "clock"}

\* what the library of a path holds (a selection for the traditional path)
LibraryContents(path) ==
    IF path = "traditional"
    THEN { {}, {"uart", "timer", "gpio"}, CopiedPeripherals }
    ELSE { {} }

\* the enable flag a step is guarded by
FlagOf(p) ==
    CASE p = "uart"  -> "uart_enabled"
      [] p = "timer" -> "timer_enabled"
      [] p = "gpio"  -> "gpio_enabled"
      [] p = "clock" -> "clock_enabled"
      [] p = "dma"   -> "dma_enabled"
      [] p = "spi"   -> "spi_enabled"
      [] OTHER       -> "i2c_enabled"

\* the steps of each path in the order of the code: lines 2251-2297 (Harmony
\* 3, without DMA), 2303-2328 (traditional) and 2343-2362 (custom)
PathSteps(path) ==
    IF path = "harmony3"
    THEN <<"uart", "timer", "gpio", "clock", "i2c", "spi">>
    ELSE <<"uart", "timer", "gpio", "clock", "dma", "spi", "i2c">>

\* the step runs the custom generator: always on the custom path, on the
\* traditional path when no file of the peripheral was copied, and for GPIO
\* on the Harmony 3 path
UsesCustomGenerator(path, found, p) ==
    \/ path = "custom"
    \/ path = "traditional" /\ p \notin found
    \/ path = "harmony3" /\ p = "gpio"

\* the one generator that lets an exception out: generate_clock_files
StepRaises(path, found, p, clock) ==
    p = "clock" /\ UsesCustomGenerator(path, found, p) /\ ClockGenRaises(clock)

\* the positions of the path whose step is reached and completes
StepsCompleted(path, found, cfg, clock) ==
    LET seq == PathSteps(path)
        fails(i) == cfg[FlagOf(seq[i])] /\ StepRaises(path, found, seq[i], clock)
    IN  { seq[i] : i \in { j \in 1..Len(seq) :
                             /\ cfg[FlagOf(seq[j])]
                             /\ \A k \in 1..j : ~fails(k) } }

\* the step whose exception ended the run, or "none"
StepFailed(path, found, cfg, clock) ==
    IF \E i \in 1..Len(PathSteps(path)) :
          /\ cfg[FlagOf(PathSteps(path)[i])]
          /\ StepRaises(path, found, PathSteps(path)[i], clock)
    THEN "clock" ELSE "none"

\* generate_peripheral_files has not run
NotGenerated ==
    [ run          |-> FALSE,
      path         |-> "custom",
      enabled      |-> {},
      steps        |-> {},
      failed       |-> "none",
      system_files |-> FALSE ]

\* generate_peripheral_files on one of the three paths that
\* find_microchip_plib_directory and the library's contents decide; found is
\* the set of peripherals whose files a traditional library holds. An
\* exception leaves the function at the failing step: the later steps and
\* generate_system_files do not run.
generate_peripheral_files ==
    /\ ~dialog.open
    /\ \E path \in LibraryPaths : \E found \in LibraryContents(path) :
        LET done == StepsCompleted(path, found, config, clock_config)
            custom(p) == p \in done /\ UsesCustomGenerator(path, found, p)
        IN  /\ generated' =
                 [ run          |-> TRUE,
                   path         |-> path,
                   enabled      |-> {p \in Peripherals : config[FlagOf(p)]},
                   steps        |-> done,
                   failed       |-> StepFailed(path, found, config, clock_config),
                   system_files |->
                       StepFailed(path, found, config, clock_config) = "none" ]
            /\ uart_out' = IF custom("uart") THEN UartFile(uart_config) ELSE uart_out
            /\ timer_out' = IF custom("timer") THEN TimerFile(timer_config)
                            ELSE timer_out
            /\ gpio_out' = IF custom("gpio") /\ \E p \in GpioPins : gpio_pins[p].enabled
                           THEN GpioSource(gpio_pins) ELSE gpio_out
            /\ clock_out' = IF custom("clock") THEN ClockHeader(clock_config)
                            ELSE clock_out
            /\ h3_uart_out' = IF path = "harmony3" /\ "uart" \in done
                              THEN H3UartFile(uart_config) ELSE h3_uart_out
            /\ h3_tmr_out' = IF path = "harmony3" /\ "timer" \in done
                             THEN H3TmrFile(timer_config) ELSE h3_tmr_out
            /\ reconf_uart_out' =
                 IF path = "traditional" /\ "uart" \in done /\ "uart" \in found
                 THEN ReconfUartFile(uart_config) ELSE reconf_uart_out
    /\ UNCHANGED <<clock_config, dialog, edits, uart_config, timer_config,
                   timer_edits, gpio_pins, gpio_ui, gpio_edits, genVars,
                   config, sections, tplVars>>

-----------------------------------------------------------------------------
(* Writes to the clock variables from outside the dialog: test_config.py   *)
(* and load_template. No dialog is open, so no calculate_frequencies runs   *)
(* and system_freq keeps the text it has.                                   *)

\* test_config.py line 34: app.clock_config['input_freq'].set('12.0')
TestSetInputFreq ==
    /\ ~dialog.open
    /\ clock_config' = [clock_config EXCEPT !.input_freq = Num(1200)]
    /\ UNCHANGED <<dialog, edits, clock_out, uartVars, timerVars, gpioVars, genVars, extVars>>

\* test_config.py line 35: app.clock_config['pll_mult'].set('15')
TestSetPllMult ==
    /\ ~dialog.open
    /\ clock_config' = [clock_config EXCEPT !.pll_mult = Num(15)]
    /\ UNCHANGED <<dialog, edits, clock_out, uartVars, timerVars, gpioVars, genVars, extVars>>

\* the clock_configuration of template files written by save_template: every
\* key of clock_config as it stood after the dialog's calculation
ClockTemplates ==
    { DefaultClockConfig,
      [DefaultClockConfig EXCEPT !.input_freq = Num(1200), !.pll_mult = Num(50),
                                 !.system_freq = 3000, !.peripheral_freq = 3000] }

\* load_template: every key of the file is set, then update_clock_summary
load_template ==
    /\ ~dialog.open
    /\ \E t \in ClockTemplates : clock_config' = t
    /\ UNCHANGED <<dialog, edits, clock_out, uartVars, timerVars, gpioVars, genVars, extVars>>

-----------------------------------------------------------------------------
(* generate_project: the generation pass runs in a thread of its own and   *)
(* reads the Tk variables when each step gets to them, while the main      *)
(* thread goes on serving the widgets. gen_start records the configuration *)
(* at the start of the pass; the thread itself keeps no copy.               *)

\* generate_project: validate_config, then threading.Thread(...).start()
generate_project ==
    /\ gen_pc \in {"idle", "done"}
    /\ gen_pc' = "uart"
    /\ gen_start' = [ uart |-> uart_config, timer |-> timer_config,
                      clock |-> clock_config ]
    /\ UNCHANGED <<clockVars, uartVars, timerVars, gpioVars, extVars>>

\* generate_custom_peripheral_files, one step per peripheral, in its order
PassUart ==
    /\ gen_pc = "uart"
    /\ gen_pc' = "timer"
    /\ uart_out' = UartFile(uart_config)
    /\ UNCHANGED <<uart_config, gen_start, clockVars, timerVars, gpioVars, extVars>>

PassTimer ==
    /\ gen_pc = "timer"
    /\ gen_pc' = "gpio"
    /\ timer_out' = TimerFile(timer_config)
    /\ UNCHANGED <<timer_config, timer_edits, gen_start,
                   clockVars, uartVars, gpioVars, extVars>>

PassGpio ==
    /\ gen_pc = "gpio"
    /\ gen_pc' = "clock"
    /\ gpio_out' = IF \E p \in GpioPins : gpio_pins[p].enabled
                   THEN GpioSource(gpio_pins)
                   ELSE gpio_out
    /\ UNCHANGED <<gpio_pins, gpio_ui, gpio_edits, gen_start,
                   clockVars, uartVars, timerVars, extVars>>

\* an exception of generate_clock_files ends the pass (line 2071)
PassClock ==
    /\ gen_pc = "clock"
    /\ gen_pc' = "done"
    /\ clock_out' = IF ClockGenRaises(clock_config) THEN clock_out
                    ELSE ClockHeader(clock_config)
    /\ UNCHANGED <<clock_config, dialog, edits, gen_start,
                   uartVars, timerVars, gpioVars, extVars>>

-----------------------------------------------------------------------------
(* Specifications: the state after PIC32ProjectBuilderGUI.__init__, then    *)
(* the operations of one part of the program.                              *)

\* no generation pass has been started
NoSnapshot ==
    [ uart |-> DefaultUartConfig, timer |-> DefaultTimerConfig,
      clock |-> DefaultClockConfig ]

Init ==
    /\ clock_config = DefaultClockConfig
    /\ dialog = NoDialog
    /\ edits = 0
    /\ clock_out = NoClockFile
    /\ uart_config = DefaultUartConfig
    /\ uart_out = NoUartFile
    /\ timer_config = DefaultTimerConfig
    /\ timer_edits = 0
    /\ timer_out = NoTimerFile
    /\ gpio_pins = [p \in GpioPins |-> DefaultPinConfig]
    /\ gpio_ui = NoPinFrame
    /\ gpio_edits = 0
    /\ gpio_out = NoGpioFile
    /\ gen_pc = "idle"
    /\ gen_start = NoSnapshot
    /\ config = DefaultConfig
    /\ sections = update_communication_timer_visibility(DefaultConfig, SectionsRemoved)
    /\ template = NoTemplate
    /\ tpl_origin = WholeConfiguration(DefaultConfig, DefaultUartConfig,
                                      DefaultClockConfig, DefaultTimerConfig,
                                      [p \in GpioPins |-> DefaultPinConfig])
    /\ tpl_loads = 0
    /\ generated = NotGenerated
    /\ h3_uart_out = NoH3UartFile
    /\ h3_tmr_out = NoH3TmrFile
    /\ reconf_uart_out = NoReconfUartFile

NextClock ==
    \/ OpenClockConfig
    \/ CloseDialog
    \/ EditInputFreq
    \/ TogglePll
    \/ SelectPllInputDiv
    \/ SelectPllMult
    \/ SelectPllOutputDiv
    \/ ToggleBus
    \/ SelectBusDiv
    \/ RefreshPllKey
    \/ RefreshBusDiv
    \/ generate_clock_files

SpecClock == Init /\ [][NextClock]_vars

NextUart ==
    \/ EditBaudRate
    \/ SelectDataBits
    \/ SelectParity
    \/ SelectStopBits
    \/ generate_uart_files

SpecUart == Init /\ [][NextUart]_vars

\* the three writers of a UART BRG value, on one baud-rate setting
NextBrg ==
    \/ EditBaudRate
    \/ generate_uart_files
    \/ harmony3_uart_templates
    \/ reconfigure_uart_files

SpecBrg == Init /\ [][NextBrg]_vars

\* the two writers of a timer period register, on one timer configuration
NextPeriod ==
    \/ SelectTimerMode
    \/ SelectPrescaler
    \/ SelectPeriodMode
    \/ EditFrequency
    \/ generate_timer_files
    \/ harmony3_tmr_templates

SpecPeriod == Init /\ [][NextPeriod]_vars

NextTimer ==
    \/ SelectTimerMode
    \/ SelectPrescaler
    \/ SelectPeriodMode
    \/ EditFrequency
    \/ EditPeriodMs
    \/ EditPeriodUs
    \/ EditPeriodCount
    \/ ToggleGateEnable
    \/ ToggleExternalClock
    \/ ToggleStopInIdle
    \/ generate_timer_files

SpecTimer == Init /\ [][NextTimer]_vars

NextGpio ==
    \/ TogglePinEnabled
    \/ ToggleAnalog
    \/ TogglePullUp
    \/ TogglePullDown
    \/ SelectAltFunction
    \/ generate_gpio_files

SpecGpio == Init /\ [][NextGpio]_vars

\* a generation pass with the owner editing UART and timer settings
NextPass ==
    \/ generate_project
    \/ PassUart
    \/ PassTimer
    \/ PassGpio
    \/ PassClock
    \/ EditBaudRate
    \/ SelectPrescaler

SpecPass == Init /\ [][NextPass]_vars

\* the clock variables written through the dialog, by test_config.py and
\* by load_template, and the clock header generated from them
NextStale ==
    \/ OpenClockConfig
    \/ CloseDialog
    \/ SelectPllMult
    \/ TestSetInputFreq
    \/ TestSetPllMult
    \/ load_template
    \/ generate_clock_files

SpecStale == Init /\ [][NextStale]_vars

\* the clock tree changed in the dialog, UART and timer files generated
NextSource ==
    \/ OpenClockConfig
    \/ CloseDialog
    \/ SelectPllMult
    \/ SelectBusDiv
    \/ generate_uart_files
    \/ generate_timer_files

SpecSource == Init /\ [][NextSource]_vars

\* a template saved, the configuration changed, the template loaded again
NextTemplate ==
    \/ save_template
    \/ LoadSavedTemplate
    \/ SelectDataBits
    \/ SelectTimerMode
    \/ TogglePinEnabled
    \/ ToggleTimerEnabled

SpecTemplate == Init /\ [][NextTemplate]_vars

\* the enable flags and the clock input changed, generate_peripheral_files
\* run on each library path
NextPaths ==
    \/ ToggleDmaEnabled
    \/ ToggleSpiEnabled
    \/ OpenClockConfig
    \/ CloseDialog
    \/ EditInputFreq
    \/ generate_peripheral_files

SpecPaths == Init /\ [][NextPaths]_vars

\* writes to the enable flags, by the checkbuttons and by load_template
NextSections ==
    \/ ToggleUartEnabled
    \/ ToggleTimerEnabled
    \/ ToggleDmaEnabled
    \/ ToggleSpiEnabled
    \/ save_template
    \/ LoadSavedTemplate

SpecSections == Init /\ [][NextSections]_vars

-----------------------------------------------------------------------------
(* Properties *)

\* round(a / b) for a >= 0, b > 0: nearest integer, ties away from zero
RoundNearest(a, b) == (2 * a + b) \div (2 * b)

\* the PLL settings lie in the domains of the dialog's comboboxes
PllInDomain(cfg) ==
    /\ cfg.pll_input_div.ok /\ cfg.pll_input_div.n \in 1..8
    /\ cfg.pll_mult.ok /\ cfg.pll_mult.n \in 15..128
    /\ cfg.pll_output_div.ok /\ cfg.pll_output_div.n \in {1, 2, 4, 8, 16, 32}

\* C1: for a positive input frequency and in-domain PLL settings, the system
\* frequency the dialog's calculation leaves in clock_config equals the input
\* frequency with the PLL disabled and (input / inputDivider * multiplier) /
\* outputDivider with it enabled, and the VCO shown is input / inputDivider *
\* multiplier. (system_freq and the labels are in tenths, input_freq in
\* hundredths of a MHz.)
C1_SystemFrequencyExact ==
    ( /\ dialog.open
      /\ clock_config.input_freq.ok
      /\ clock_config.input_freq.n > 0
      /\ clock_config.pll_enabled => PllInDomain(clock_config) )
    => /\ dialog.sys_freq_label.kind = "value"
       /\ 10 * clock_config.system_freq * SysDen(clock_config) = SysNum(clock_config)
       /\ clock_config.pll_enabled =>
             /\ dialog.vco_freq_label.kind = "value"
             /\ 10 * dialog.vco_freq_label.val * VcoDen(clock_config)
                    = VcoNum(clock_config)

\* the register value a divider string stands for: x of "x = ÷y", or the
\* number of a plain string
HasRegisterValue(div_str) == div_str.form \in {"label", "plain"}

RegisterValue(div_str) == div_str.x

\* C2: each bus on its own: an enabled bus runs at systemFrequency /
\* (registerValue + 1), a disabled bus at 0, an enabled bus with register
\* value 0 at exactly the system frequency; in the dialog's labels and in the
\* generated header.
C2_BusFrequency ==
    /\ ( dialog.open /\ ~CalcRaises(clock_config) ) =>
          \A b \in Buses :
             LET lbl == dialog.pbclk_freq_label[b]
                 div_str == clock_config.pbclk_div[b]
             IN  /\ ~clock_config.pbclk_enabled[b] => lbl.kind = "disabled"
                 /\ ( clock_config.pbclk_enabled[b] /\ HasRegisterValue(div_str) ) =>
                       /\ lbl.kind = "value"
                       /\ lbl.val = Fmt1(SysNum(clock_config),
                                         SysDen(clock_config) * (RegisterValue(div_str) + 1))
    /\ clock_out.written =>
          \A b \in Buses :
             LET bus == clock_out.bus[b]
             IN  /\ ~bus.enabled => bus.freq = 0
                 /\ bus.enabled => bus.freq = TruncDiv(clock_out.system_hz, bus.reg_val + 1)
                 /\ ( bus.enabled /\ bus.reg_val = 0 ) => bus.freq = clock_out.system_hz

VcoOutOfRange(cfg) ==
    \/ VcoNum(cfg) < VcoMin * 100 * VcoDen(cfg)
    \/ VcoNum(cfg) > VcoMax * 100 * VcoDen(cfg)

\* C3: warnings are advisory and decided by the thresholds alone: a valid
\* configuration gets a system frequency and bus frequencies, the VCO is
\* flagged (red) exactly when the PLL is enabled and the VCO is below 350 or
\* above 700 MHz, "exceeds maximum" is shown exactly above 200 MHz and
\* "high frequency" exactly above 180 and up to 200 MHz.
C3_WarningsByThreshold ==
    ( dialog.open /\ ~CalcRaises(clock_config) ) =>
       /\ dialog.sys_freq_label.kind = "value"
       /\ \A b \in Buses : dialog.pbclk_freq_label[b].kind \in {"value", "disabled"}
       /\ dialog.vco_freq_label.fg = "red"
             <=> ( clock_config.pll_enabled /\ VcoOutOfRange(clock_config) )
       /\ dialog.freq_warning = "exceeds maximum"
             <=> SysNum(clock_config) > SysFreqMax * 100 * SysDen(clock_config)
       /\ dialog.freq_warning = "high frequency"
             <=> /\ SysNum(clock_config) > SysFreqHigh * 100 * SysDen(clock_config)
                 /\ SysNum(clock_config) <= SysFreqMax * 100 * SysDen(clock_config)

\* a zero or unparsable divider, or a non-positive or unparsable frequency
InvalidClockInput(cfg) ==
    \/ ~cfg.input_freq.ok
    \/ cfg.input_freq.n <= 0
    \/ /\ cfg.pll_enabled
       /\ \/ ~cfg.pll_input_div.ok \/ cfg.pll_input_div.n = 0
          \/ ~cfg.pll_output_div.ok \/ cfg.pll_output_div.n = 0
          \/ ~cfg.pll_mult.ok
    \/ \E b \in Buses :
          /\ cfg.pbclk_enabled[b]
          /\ \/ cfg.pbclk_div[b].form = "other"
             \/ cfg.pbclk_div[b].form = "label" /\ cfg.pbclk_div[b].y = 0

\* C4: a resolve of an invalid input fails as a whole: the result is the
\* error (no system frequency, no bus frequency is shown), and nothing is
\* generated from such an input with a default divisor or an earlier
\* system frequency standing in.
C4_InvalidInputFails ==
    /\ ( dialog.open /\ InvalidClockInput(clock_config) ) =>
          /\ dialog.sys_freq_label.kind = "invalid"
          /\ \A b \in Buses : dialog.pbclk_freq_label[b].kind # "value"
    /\ clock_out.written =>
          /\ clock_out.input_freq.ok /\ clock_out.input_freq.n > 0
          /\ clock_out.pll_enabled =>
                /\ clock_out.pll_input_div.ok /\ clock_out.pll_input_div.n # 0
                /\ clock_out.pll_output_div.ok /\ clock_out.pll_output_div.n # 0

\* C5: for a positive baud rate the BRG value written is
\* round(sourceClockHz / (16 * baudRate)) - 1, rounded to nearest.
C5_BrgRounded ==
    ( uart_out.written /\ uart_out.baud_rate.ok /\ uart_out.baud_rate.n > 0 ) =>
       uart_out.brg_value
          = RoundNearest(AssumedPbclkHz, 16 * uart_out.baud_rate.n) - 1

\* C6: no UART file, and so no BRG value, is written for a baud rate that is
\* zero, negative or not a number.
C6_InvalidBaudFails ==
    uart_out.written => ( uart_out.baud_rate.ok /\ uart_out.baud_rate.n > 0 )

\* C7: every BRG value written is non-negative, and none is written for a
\* baud rate whose round(sourceClockHz / (16 * baudRate)) - 1 is negative.
C7_BrgNonNegative ==
    uart_out.written =>
       /\ uart_out.brg_value >= 0
       /\ ( uart_out.baud_rate.ok /\ uart_out.baud_rate.n > 0 ) =>
             RoundNearest(AssumedPbclkHz, 16 * uart_out.baud_rate.n) - 1 >= 0

\* the fields of a written UxMODE value: the stop-bit flag is bit 0, the
\* data/parity pattern the bits above it and below the ON bit
StopFlag(file) == file.uart_mode_value % 2

ParityPattern(file) == (file.uart_mode_value % UartOnBit) - StopFlag(file)

\* C8: in every UART file the stop-bit flag is set exactly when 2 stop bits
\* are selected, whatever the width and parity; and of any two files written
\* one after the other, two with data width 9 carry the same pattern whatever
\* their parity, a file with width 9 and one without carry different
\* patterns, and two without width 9 carry the same pattern exactly when
\* their parity is the same.
C8_ModeEncoding ==
    /\ [](uart_out.written => (StopFlag(uart_out) = 1 <=> uart_out.stop_bits = "2"))
    /\ [][ ( uart_out.written /\ uart_out'.written ) =>
             /\ ( uart_out.data_bits = "9" /\ uart_out'.data_bits = "9" ) =>
                   ParityPattern(uart_out') = ParityPattern(uart_out)
             /\ ( uart_out.data_bits = "9" /\ uart_out'.data_bits # "9" ) =>
                   ParityPattern(uart_out') # ParityPattern(uart_out)
             /\ ( uart_out.data_bits # "9" /\ uart_out'.data_bits # "9" ) =>
                   ( ParityPattern(uart_out') = ParityPattern(uart_out)
                        <=> uart_out'.parity = uart_out.parity )
             /\ ( uart_out'.stop_bits = uart_out.stop_bits ) =>
                   StopFlag(uart_out') = StopFlag(uart_out) ]_vars

\* a file for width 9 with a parity selected and 2 stop bits has been written
C8_Witness ==
    /\ uart_out.written
    /\ uart_out.data_bits = "9"
    /\ uart_out.parity = "Even"
    /\ uart_out.stop_bits = "2"
    /\ uart_out.uart_mode_value = UartOnBit + 8 + 1
    /\ uart_config.parity = "Odd"

\* C9: in Frequency mode with a positive frequency the period value, where
\* the 16-bit limit has not replaced it, is
\* round(clockSourceHz / (prescaler * targetFrequencyHz)) - 1, rounded to
\* nearest; for 80 MHz, prescaler 1 and 1000 Hz it is 79999.
C9_PeriodRounded ==
    ( /\ timer_out.written
      /\ timer_out.args.period_mode = "Frequency"
      /\ timer_out.args.frequency.ok
      /\ timer_out.args.frequency.n > 0
      /\ timer_out.args.timer_mode # "16-bit" \/ timer_out.pr_value < Max16 )
    => /\ timer_out.pr_value
             = RoundNearest(PrescaledClock(timer_out.args.prescaler),
                            timer_out.args.frequency.n) - 1
       /\ ( timer_out.args.prescaler = "1:1" /\ timer_out.args.frequency.n = 1000 ) =>
             timer_out.pr_value = 79999

\* C10: in 16-bit mode a derivation above 65535 is written as 65535, a
\* PeriodClamped warning goes with it, and the frequency reported is the one
\* recomputed from 65535.
C10_ClampWarned ==
    ( /\ timer_out.written
      /\ timer_out.args.timer_mode = "16-bit"
      /\ TimerPeriodRaw(timer_out.args) > Max16 )
    => /\ timer_out.pr_value = Max16
       /\ "PeriodClamped" \in timer_out.log
       /\ timer_out.freq_display = FreqDisplay(timer_out.args.prescaler, Max16)

\* C11: every period value written is at least 0, at most 0xFFFF in 16-bit
\* mode and at most 0xFFFFFFFF (high half-word at most 0xFFFF) otherwise,
\* whatever the period mode and the text of its field.
C11_PeriodInRange ==
    timer_out.written =>
       /\ timer_out.pr_value >= 0
       /\ timer_out.args.timer_mode = "16-bit" => timer_out.pr_value <= Max16
       /\ timer_out.args.timer_mode # "16-bit" =>
             timer_out.pr_value \div (Max16 + 1) <= Max16

\* the field the selected period mode reads
ActivePeriodField(cfg) ==
    CASE cfg.period_mode = "Frequency" -> cfg.frequency
      [] cfg.period_mode = "Period (ms)" -> cfg.period_ms
      [] cfg.period_mode = "Period (us)" -> cfg.period_us
      [] OTHER -> cfg.period_count

\* C12: no timer file, and so no period value, is written when the prescaler
\* is not one of the four ratios or the requested frequency or period is
\* zero, negative or not a number (a count that is not a number included).
C12_InvalidTimerFails ==
    timer_out.written =>
       /\ timer_out.args.prescaler \in PrescalerValues
       /\ ActivePeriodField(timer_out.args).ok
       /\ timer_out.args.period_mode # "Count Value" =>
             ActivePeriodField(timer_out.args).n > 0

\* C13: in every timer file the 32-bit bit is set exactly in 32-bit mode, the
\* prescaler field is 0, 1, 2, 3 for 1:1, 1:8, 1:64, 1:256, and the gate,
\* external-clock and stop-in-idle bits are each set exactly when their own
\* flag is enabled.
C13_ControlBits ==
    timer_out.written =>
       /\ "T32" \in timer_out.tcon_bits
             <=> timer_out.args.timer_mode = "32-bit (TMRx/TMRy)"
       /\ timer_out.args.prescaler = "1:1" => timer_out.tckps = 0
       /\ timer_out.args.prescaler = "1:8" => timer_out.tckps = 1
       /\ timer_out.args.prescaler = "1:64" => timer_out.tckps = 2
       /\ timer_out.args.prescaler = "1:256" => timer_out.tckps = 3
       /\ "TGATE" \in timer_out.tcon_bits <=> timer_out.args.gate_enable
       /\ "TCS" \in timer_out.tcon_bits <=> timer_out.args.external_clock
       /\ "SIDL" \in timer_out.tcon_bits <=> timer_out.args.stop_in_idle
       /\ timer_out.tcon_bits \subseteq {"T32", "TGATE", "TCS", "SIDL"}

\* a 32-bit file with the gate bit and prescaler 1:64, external clock off
C13_Witness ==
    /\ timer_out.written
    /\ timer_out.args.timer_mode = "32-bit (TMRx/TMRy)"
    /\ timer_out.args.gate_enable
    /\ ~timer_out.args.external_clock
    /\ timer_out.args.prescaler = "1:64"
    /\ timer_out.tcon_bits = {"T32", "TGATE"}
    /\ timer_out.tckps = 2

\* the Frequency-mode value, before the limit, for a frequency of f Hz
FrequencyModeValue(cfg, f) ==
    TimerPeriodRaw([cfg EXCEPT !.period_mode = "Frequency", !.frequency = Num(f)])

\* two configurations give the selected mode the same inputs
SameActiveInputs(a, b) ==
    /\ a.timer_mode = b.timer_mode
    /\ a.period_mode = b.period_mode
    /\ ActivePeriodField(a) = ActivePeriodField(b)
    /\ a.period_mode # "Count Value" => a.prescaler = b.prescaler

C15_AnalogUnsupportedNoted ==
    gpio_out.written =>
       \A p \in GpioPins :
          LET l == gpio_out.pins[p]
          IN  ( l.configured /\ l.args.analog_enabled /\ ~PinHasAnalog(p) ) =>
                 /\ l.ansel = "none"
                 /\ l.notes # {}

\* RA6, which has no analog channel, was generated with analog enabled
C15_Witness ==
    /\ gpio_out.written
    /\ gpio_out.pins["RA6"].configured
    /\ gpio_out.pins["RA6"].args.analog_enabled
    /\ gpio_out.pins["RA6"].notes = {"no analog function"}

C17_PullsExclusive ==
    gpio_out.written =>
       \A p \in GpioPins :
          ~( gpio_out.pins[p].pull_up /\ gpio_out.pins[p].pull_down )

\* C18: what a generation pass has read is what the configuration was when
\* the pass was started: once the UART step has run the UART settings in its
\* file are those of the start, once the timer step has run the timer
\* settings are, and at the end the clock inputs are.
C18_PassReadsSnapshot ==
    /\ gen_pc \in {"timer", "gpio", "clock", "done"} =>
          /\ uart_out.baud_rate = gen_start.uart.baud_rate
          /\ uart_out.data_bits = gen_start.uart.data_bits
          /\ uart_out.parity = gen_start.uart.parity
          /\ uart_out.stop_bits = gen_start.uart.stop_bits
    /\ gen_pc \in {"gpio", "clock", "done"} =>
          timer_out.args = gen_start.timer
    /\ ( gen_pc = "done" /\ clock_out.written ) =>
          clock_out.input_freq = gen_start.clock.input_freq

\* C19: the system frequency in a generated clock header is the one the
\* formula gives (stored to one decimal) for the input frequency and PLL
\* settings written into the same header, whenever these are valid.
C19_EmittedFrequencyFresh ==
    ( clock_out.written /\ ~CalcRaises(clock_out) ) =>
       clock_out.system_hz = TenthsToHz(StoredSystemFreq(clock_out))

\* the frequency in Hz of bus b as generate_clock_files resolves it
ResolvedPbclkHz(cfg, b) ==
    HeaderBus(cfg.pbclk_enabled[b], cfg.pbclk_div[b], TenthsToHz(cfg.system_freq)).freq

\* C20: the BRG value of a UART file is the one computed from the PBCLK2
\* frequency of the clock configuration at its generation (by truncation or
\* by rounding), and the period value of a timer file the one computed from
\* the PBCLK3 frequency.
C20_SourceFromClockTree ==
    [][ /\ ( ~uart_out.written /\ uart_out'.written
             /\ ResolvedPbclkHz(clock_config, 2) > 0 ) =>
             LET hz == ResolvedPbclkHz(clock_config, 2)
                 d  == 16 * uart_config.baud_rate.n
             IN  uart_out'.brg_value
                    \in {IntQuotientMinusOne(hz, d), RoundNearest(hz, d) - 1}
        /\ ( ~timer_out.written /\ timer_out'.written
             /\ ResolvedPbclkHz(clock_config, 3) > 0 ) =>
             LET hz == ResolvedPbclkHz(clock_config, 3)
                     \div PrescalerDiv(timer_config.prescaler)
                 f  == timer_config.frequency.n
             IN  timer_out'.pr_value
                    \in { LimitPeriod(timer_config.timer_mode, IntQuotientMinusOne(hz, f)),
                          LimitPeriod(timer_config.timer_mode, RoundNearest(hz, f) - 1) }
      ]_vars

\* C21: loading the template that save_template wrote gives back every
\* configuration field as it was at the save, so that the UART, clock, timer
\* and GPIO generation yield on the reloaded configuration what they yield on
\* the saved one.
C21_TemplateRoundTrip ==
    [][ tpl_loads' # tpl_loads =>
          /\ config' = tpl_origin.config
          /\ uart_config' = tpl_origin.uart
          /\ clock_config' = tpl_origin.clock
          /\ TimerFile(timer_config') = TimerFile(tpl_origin.timer)
          /\ GpioSource(gpio_pins') = GpioSource(tpl_origin.gpio) ]_vars

\* C22: when a generation step fails, every other enabled peripheral is
\* still generated by that run.
C22_FailureAbortsOneStep ==
    ( generated.run /\ generated.failed # "none" ) =>
        (generated.enabled \ {generated.failed}) \subseteq generated.steps

\* C28: a run of generate_peripheral_files that no exception ends runs the
\* generation step of exactly the peripherals whose enable flag is set, on
\* the Harmony 3, the traditional and the custom path alike.
C28_EveryEnabledGenerated ==
    ( generated.run /\ generated.failed = "none" ) =>
        generated.steps = generated.enabled

\* C23: no step writes a field of the clock configuration that the step's
\* operation was not asked to write: the fields system_freq and
\* peripheral_freq, which no widget edits, keep their values through every
\* calculation and every generation.
C23_ConfigurationNotWritten ==
    [][ /\ clock_config'.system_freq = clock_config.system_freq
        /\ clock_config'.peripheral_freq = clock_config.peripheral_freq ]_vars

\* the result of calculate_frequencies on the inputs of cfg in a program
\* in which no calculation has run before: the derived fields as
\* constructed, the dialog's labels as created
FirstCalculation(cfg) ==
    calculate_frequencies(
        [cfg EXCEPT !.system_freq = DefaultClockConfig.system_freq,
                    !.peripheral_freq = DefaultClockConfig.peripheral_freq],
        NewDialog)

\* C24: the derived clock values depend on the inputs only: after any
\* sequence of calculations, the stored frequencies and the dialog's labels
\* are the ones a first calculation on the same inputs yields.
C24_ResultsFromInputsOnly ==
    dialog.open =>
        /\ clock_config = FirstCalculation(clock_config).cfg
        /\ dialog = FirstCalculation(clock_config).dlg

\* C25: for a stored divider string of an accepted form, the divisor is the
\* register value plus one, and the dialog's bus label, the clock tree and
\* the generated header all take that divisor from the string.
C25_DividerConsistent ==
    \A b \in Buses :
        LET s == clock_config.pbclk_div[b]
        IN  ( /\ dialog.open
              /\ ~CalcRaises(clock_config)
              /\ clock_config.pbclk_enabled[b]
              /\ s.form \in {"label", "plain"} ) =>
                /\ HeaderDivisor(s) = HeaderRegVal(s) + 1
                /\ DialogDivisor(s) = HeaderDivisor(s)
                /\ dialog.clock_tree[b].kind = "value"
                /\ dialog.clock_tree[b].divisor = HeaderDivisor(s)

\* C26: once the traces of a write to uart_enabled or timer_enabled have
\* run, the UART section is shown exactly when UART is enabled, and the
\* Timer section exactly when Timer is enabled and UART is not.
C26_OneSectionShown ==
    /\ sections.uart_container = config.uart_enabled
    /\ sections.timer_container = (config.timer_enabled /\ ~config.uart_enabled)

\* C27: in a generated timer file the period value is limited to 32 bits
\* exactly when the T32 bit is in the control register and exactly when the
\* period accessors are 32 bits wide; else it is limited to 0xFFFF.
C27_WidthConsistent ==
    timer_out.written =>
        /\ (timer_out.period_limit_bits = 32) = ("T32" \in timer_out.tcon_bits)
        /\ (timer_out.period_limit_bits = 32) = (timer_out.accessor_bits = 32)
        /\ timer_out.period_limit_bits = 16 => timer_out.pr_value <= Max16
        /\ timer_out.pr_value \div (Max16 + 1) <= Max16

\* a 32-bit file with a period value that needs more than 16 bits
C27_Witness ==
    /\ timer_out.written
    /\ "T32" \in timer_out.tcon_bits
    /\ timer_out.accessor_bits = 32
    /\ timer_out.pr_value > Max16

\* C29: when the custom generator, the reconfiguration of copied files and
\* the Harmony 3 substitution have all written a BRG for the same baud-rate
\* setting, the three values are the same, for an unparsable or zero baud
\* rate as well.
C29_SameBrg ==
    ( /\ uart_out.written /\ h3_uart_out.written /\ reconf_uart_out.written
      /\ uart_out.baud_rate = h3_uart_out.baud_rate
      /\ uart_out.baud_rate = reconf_uart_out.baud_rate )
    => /\ reconf_uart_out.replaced
       /\ uart_out.brg_value = h3_uart_out.brg_value
       /\ uart_out.brg_value = reconf_uart_out.brg_value

\* C30: when the custom generator and the Harmony 3 substitution have both
\* written a timer file for the same timer configuration, the period
\* register value and the prescaler field are the same in the two files,
\* in every period mode and timer mode.
C30_SamePeriod ==
    ( /\ timer_out.written /\ h3_tmr_out.written
      /\ timer_out.args = h3_tmr_out.args )
    => /\ h3_tmr_out.substituted
       /\ h3_tmr_out.period_reg = timer_out.pr_value
       /\ h3_tmr_out.prescaler_val = timer_out.tckps

====
